---- MODULE Spec2Model ----
(***************************************************************************)
(* The Album Artister: a walk of a directory tree for ".mp3" paths, a load *)
(* of every path through the tag library, and a fix of every loaded song   *)
(* that lacks an album artist (src/albumArtister.py).                      *)
(*                                                                         *)
(* A path is a record [abs, parts] as pathlib keeps it: joinpath of an     *)
(* absolute argument returns the argument, joinpath of a relative argument *)
(* appends its parts.  The file system is a function from the absolute     *)
(* location of every existing entry to "dir" or "file".  The tag library   *)
(* (music_tag) is modelled by its contract at the call sites: a tag is     *)
(* present when it has a value, a read of a tag that has no value gives    *)
(* NoValue, and save writes the tags of the handle to the file or raises.  *)
(***************************************************************************)
EXTENDS Integers, Sequences, FiniteSets, TLC

VARIABLES fs, disk, dir_path, pc, run, files, songs, idx, fixed_songs, out,
          saved, exc

vars == <<fs, disk, dir_path, pc, run, files, songs, idx, fixed_songs, out,
          saved, exc>>

(***************************************************************************)
(* Bounds of the model.                                                    *)
(***************************************************************************)
\* deepest nesting of sub directories under the root in SpecWalk
MaxDepth == 2
\* deepest nesting of sub directories under the root in Spec
MaxPipeDepth == 1
\* most regular ".mp3" files in a tree of Spec
MaxSongs == 2
\* how often the program is run on the same directory in Spec
MaxRuns == 2

(***************************************************************************)
(* Program constants.                                                      *)
(***************************************************************************)
ARTIST == "artist"
ALBUM_ARTIST == "album_artist"
TITLE == "title"
MP3 == ".mp3"

\* Python's None, and the value of a tag the file does not have
None == [py |-> "None"]
NoValue == "<no value>"

(***************************************************************************)
(* pathlib and os                                                          *)
(***************************************************************************)
\* the working directory of the process and the directory that is scanned
Cwd == <<"home">>
Root == Cwd \o <<"m">>

\* the entry names of the model, in the order os.listdir reports them
NameOrder == <<"a.mp3", "b.mp3", "d", "n.txt", "x.mp3">>

\* Path.suffix of a final component: the text from its last dot on
SuffixOf == [n \in {"a.mp3", "b.mp3", "x.mp3"} |-> ".mp3"] @@
            [n \in {"n.txt"} |-> ".txt"] @@
            [n \in {"d", "m", "home"} |-> ""]

\* Path(name) of a str
Path(name) == [abs |-> FALSE, parts |-> <<name>>]

joinpath(p, q) ==
    IF q.abs THEN q ELSE [abs |-> p.abs, parts |-> p.parts \o q.parts]

\* the absolute location the operating system resolves a path to
Resolve(p) == IF p.abs THEN p.parts ELSE Cwd \o p.parts

suffix(p) == SuffixOf[p.parts[Len(p.parts)]]

is_dir(p) == Resolve(p) \in DOMAIN fs /\ fs[Resolve(p)] = "dir"

listdir(p) ==
    SelectSeq(NameOrder, LAMBDA n : Append(Resolve(p), n) \in DOMAIN fs)

\* the filter main passes to get_all_files
file_filter(file_path) == suffix(file_path) = MP3

(***************************************************************************)
(* get_all_files: the result is the list it returns, or the exception      *)
(* os.listdir raised; visited records the directories that were listed.    *)
(***************************************************************************)
RECURSIVE get_all_files(_)
RECURSIVE extend_files(_, _, _)

get_all_files(dir) ==
    IF Resolve(dir) \notin DOMAIN fs
    THEN [raised |-> "FileNotFoundError", files |-> <<>>, visited |-> <<>>]
    ELSE IF fs[Resolve(dir)] # "dir"
    THEN [raised |-> "NotADirectoryError", files |-> <<>>, visited |-> <<>>]
    ELSE LET names == listdir(dir)
             entries == [i \in 1..Len(names) |-> joinpath(dir, Path(names[i]))]
             found == SelectSeq(entries, file_filter)
             sub_dirs == SelectSeq(entries, is_dir)
         IN  extend_files(dir, sub_dirs,
                 [raised |-> "", files |-> found, visited |-> <<Resolve(dir)>>])

extend_files(dir, sub_dirs, acc) ==
    IF sub_dirs = <<>> THEN acc
    ELSE LET full_path == joinpath(dir, Head(sub_dirs))
             r == get_all_files(full_path)
         IN  IF r.raised # ""
             THEN [raised |-> r.raised, files |-> acc.files,
                   visited |-> acc.visited \o r.visited]
             ELSE extend_files(dir, Tail(sub_dirs),
                      [raised |-> "", files |-> acc.files \o r.files,
                       visited |-> acc.visited \o r.visited])

(***************************************************************************)
(* The tag library, as the program uses it.                                *)
(***************************************************************************)
\* the base class of each exception class the model raises
BaseOf == [c \in {"PermissionError", "FileNotFoundError", "IsADirectoryError",
                  "NotADirectoryError"} |-> "OSError"] @@
          [c \in {"OSError", "TypeError", "NameError", "RuntimeError"}
               |-> "Exception"] @@
          [c \in {"UnboundLocalError"} |-> "NameError"] @@
          [c \in {"NotImplementedError"} |-> "RuntimeError"] @@
          [c \in {"Exception"} |-> "BaseException"] @@
          [c \in {"BaseException"} |-> "object"]

RECURSIVE IsInstance(_, _)
IsInstance(e, cls) ==
    IF e = cls THEN TRUE
    ELSE IF e \notin DOMAIN BaseOf THEN FALSE
    ELSE IsInstance(BaseOf[e], cls)

\* music_tag.load_file(path)
load_file(path) ==
    LET loc == Resolve(path)
    IN  IF loc \notin DOMAIN fs
        THEN [raised |-> "FileNotFoundError", value |-> None]
        ELSE IF fs[loc] = "dir"
        THEN [raised |-> "IsADirectoryError", value |-> None]
        ELSE IF disk[loc].load # "ok"
        THEN [raised |-> disk[loc].load, value |-> None]
        ELSE [raised |-> "",
              value |-> [py |-> "AudioFile", path |-> path,
                         tags |-> disk[loc].tags]]

\* key in song
Contains(song, key) == song.tags[key] # NoValue

\* song[key]
GetItem(song, key) == song.tags[key]

\* song[key] = val
SetItem(song, key, val) == [song EXCEPT !.tags[key] = val]

\* song.save(): the exception it raises, "" when it wrote the file
save(song) ==
    IF disk[Resolve(song.path)].writable THEN "" ELSE "PermissionError"

(***************************************************************************)
(* load_song: the try statement.  The except clauses are tried in order;   *)
(* an exception no clause matches propagates to the caller.  A handled     *)
(* exception leaves the function at its end, which returns None.           *)
(***************************************************************************)
except_clauses ==
    << [cls |-> "UnboundLocalError",   msg |-> "File is not a music file"],
       [cls |-> "NotImplementedError", msg |-> "File is not a music file"],
       [cls |-> "PermissionError",     msg |-> "Permission error"],
       [cls |-> "Exception",           msg |-> "Something went wrong"] >>

\* load_song without its last clause
load_song_no_catch_all(path) ==
    LET r == load_file(path)
        clauses == SubSeq(except_clauses, 1, Len(except_clauses) - 1)
        matching == SelectSeq(clauses, LAMBDA c : IsInstance(r.raised, c.cls))
    IN  IF r.raised = ""
        THEN [raised |-> "", value |-> r.value, printed |-> <<>>]
        ELSE IF matching # <<>>
        THEN [raised |-> "", value |-> None,
              printed |-> <<[msg |-> matching[1].msg, arg |-> path]>>]
        ELSE [raised |-> r.raised, value |-> None, printed |-> <<>>]

load_song(path) ==
    LET r == load_file(path)
        matching == SelectSeq(except_clauses,
                              LAMBDA c : IsInstance(r.raised, c.cls))
    IN  IF r.raised = ""
        THEN [raised |-> "", value |-> r.value, printed |-> <<>>]
        ELSE IF matching # <<>>
        THEN [raised |-> "", value |-> None,
              printed |-> <<[msg |-> matching[1].msg, arg |-> path]>>]
        ELSE [raised |-> r.raised, value |-> None, printed |-> <<>>]

(***************************************************************************)
(* set_album_artist: the handle after the assignment, and what save raised *)
(***************************************************************************)
\* set_album_artist copying the title tag
set_album_artist_from_title(song) ==
    LET title == GetItem(song, TITLE)
        changed == SetItem(song, ALBUM_ARTIST, title)
    IN  [song |-> changed, raised |-> save(changed)]

set_album_artist(song) ==
    LET artist == GetItem(song, ARTIST)
        changed == SetItem(song, ALBUM_ARTIST, artist)
    IN  [song |-> changed, raised |-> save(changed)]

(***************************************************************************)
(* One iteration of the loop of fix_album_artist_tag on `song`, with the   *)
(* count at `count`: the exception that ends it ("" for none, raised_in    *)
(* the function that raised), the handle and the count after it, whether   *)
(* the file was written, and what was printed.                             *)
(***************************************************************************)
\* the iteration without the test of line 26
fix_song_unconditional(song, count) ==
    IF song = None
    THEN [raised |-> "TypeError", raised_in |-> "fix_album_artist_tag",
          song |-> song, count |-> count, written |-> FALSE, printed |-> <<>>]
    ELSE LET r == set_album_artist(song)
         IN  IF r.raised # ""
             THEN [raised |-> r.raised, raised_in |-> "save",
                   song |-> r.song, count |-> count, written |-> FALSE,
                   printed |-> <<>>]
             ELSE [raised |-> "", raised_in |-> "",
                   song |-> r.song, count |-> count + 1, written |-> TRUE,
                   printed |-> <<[msg |-> "Fixed missing tag in song",
                                  arg |-> GetItem(r.song, TITLE)]>>]

\* the iteration with the count incremented before set_album_artist
fix_song_count_first(song, count) ==
    IF song = None
    THEN [raised |-> "TypeError", raised_in |-> "fix_album_artist_tag",
          song |-> song, count |-> count, written |-> FALSE, printed |-> <<>>]
    ELSE IF ~Contains(song, ALBUM_ARTIST)
    THEN LET r == set_album_artist(song)
         IN  IF r.raised # ""
             THEN [raised |-> r.raised, raised_in |-> "save",
                   song |-> r.song, count |-> count + 1, written |-> FALSE,
                   printed |-> <<>>]
             ELSE [raised |-> "", raised_in |-> "",
                   song |-> r.song, count |-> count + 1, written |-> TRUE,
                   printed |-> <<[msg |-> "Fixed missing tag in song",
                                  arg |-> GetItem(r.song, TITLE)]>>]
    ELSE [raised |-> "", raised_in |-> "", song |-> song, count |-> count,
          written |-> FALSE, printed |-> <<>>]

fix_song(song, count) ==
    IF song = None
    THEN \* ALBUM_ARTIST not in None
         [raised |-> "TypeError", raised_in |-> "fix_album_artist_tag",
          song |-> song, count |-> count, written |-> FALSE, printed |-> <<>>]
    ELSE IF ~Contains(song, ALBUM_ARTIST)
    THEN LET r == set_album_artist(song)
         IN  IF r.raised # ""
             THEN [raised |-> r.raised, raised_in |-> "save",
                   song |-> r.song, count |-> count, written |-> FALSE,
                   printed |-> <<>>]
             ELSE [raised |-> "", raised_in |-> "",
                   song |-> r.song, count |-> count + 1, written |-> TRUE,
                   printed |-> <<[msg |-> "Fixed missing tag in song",
                                  arg |-> GetItem(r.song, TITLE)]>>]
    ELSE [raised |-> "", raised_in |-> "", song |-> song, count |-> count,
          written |-> FALSE, printed |-> <<>>]

\* a for loop that stops one element early
exhausted_early(i, xs) == i >= Len(xs)

\* a for loop over xs whose next index is i has ended
exhausted(i, xs) == i > Len(xs)

NoExc == [type |-> "", raised_in |-> ""]

(***************************************************************************)
(* The directory trees of the model.  A tree is a chain of directories     *)
(* "d" under the root, one level per element of `levels`; a level says     *)
(* which entries its directory holds beside the next "d": a file "a.mp3",  *)
(* a file "n.txt", and an entry "x.mp3" that is a file, an empty           *)
(* directory, or a directory holding a file "b.mp3".                       *)
(***************************************************************************)
LevelKinds == [a : BOOLEAN, n : BOOLEAN, x : {"none", "file", "dir", "dirfile"}]

LevelSeqs(depth) == UNION {[1..k -> LevelKinds] : k \in 1..(depth + 1)}

SpineLoc(k) == Root \o [i \in 1..k |-> "d"]

LevelEntries(at, lv) ==
    (IF lv.a THEN {<<Append(at, "a.mp3"), "file">>} ELSE {})
    \cup (IF lv.n THEN {<<Append(at, "n.txt"), "file">>} ELSE {})
    \cup (IF lv.x = "file" THEN {<<Append(at, "x.mp3"), "file">>} ELSE {})
    \cup (IF lv.x \in {"dir", "dirfile"}
          THEN {<<Append(at, "x.mp3"), "dir">>} ELSE {})
    \cup (IF lv.x = "dirfile"
          THEN {<<at \o <<"x.mp3", "b.mp3">>, "file">>} ELSE {})

TreeEntries(levels) ==
    {<<SpineLoc(k), "dir">> : k \in 0..(Len(levels) - 1)}
    \cup UNION {LevelEntries(SpineLoc(k - 1), levels[k]) : k \in 1..Len(levels)}

TreeOf(levels) ==
    LET es == TreeEntries(levels)
    IN  [loc \in {e[1] : e \in es} |->
            IF <<loc, "dir">> \in es THEN "dir" ELSE "file"]

RegularFiles(tree) == {loc \in DOMAIN tree : tree[loc] = "file"}

Mp3Files(tree) == {loc \in RegularFiles(tree) : SuffixOf[loc[Len(loc)]] = MP3}

\* what a regular file holds and how the tag library fares on it
Tags(artist, album_artist) ==
    [k \in {ARTIST, ALBUM_ARTIST, TITLE} |->
        IF k = ARTIST THEN artist
        ELSE IF k = ALBUM_ARTIST THEN album_artist ELSE "Tune"]

FileStates ==
    { [tags |-> Tags("Bob", NoValue),   load |-> "ok", writable |-> TRUE],
      [tags |-> Tags("Bob", "Al"),      load |-> "ok", writable |-> TRUE],
      [tags |-> Tags(NoValue, NoValue), load |-> "ok", writable |-> TRUE],
      [tags |-> Tags("Bob", NoValue),   load |-> "ok", writable |-> FALSE],
      [tags |-> Tags(NoValue, NoValue), load |-> "UnboundLocalError",
       writable |-> TRUE],
      [tags |-> Tags(NoValue, NoValue), load |-> "NotImplementedError",
       writable |-> TRUE],
      [tags |-> Tags("Bob", NoValue),   load |-> "PermissionError",
       writable |-> FALSE],
      [tags |-> Tags(NoValue, NoValue), load |-> "OSError",
       writable |-> TRUE] }

NotAudio ==
    [tags |-> Tags(NoValue, NoValue), load |-> "UnboundLocalError",
     writable |-> TRUE]

\* the command line argument: the root as an absolute or a relative path
Arguments == {[abs |-> TRUE, parts |-> Root], [abs |-> FALSE, parts |-> <<"m">>]}

(***************************************************************************)
(* The state before main runs.                                             *)
(***************************************************************************)
Fresh ==
    /\ pc = "main"
    /\ run = 1
    /\ files = <<>>
    /\ songs = <<>>
    /\ idx = 1
    /\ fixed_songs = 0
    /\ out = <<>>
    /\ saved = <<>>
    /\ exc = NoExc

\* Spec starts from the trees without "n.txt" and without an empty "x.mp3"
\* directory that hold at most MaxSongs regular ".mp3" files, each file in any
\* of FileStates
Init ==
    /\ \E levels \in LevelSeqs(MaxPipeDepth) :
          /\ \A k \in 1..Len(levels) : ~levels[k].n /\ levels[k].x # "dir"
          /\ Cardinality(Mp3Files(TreeOf(levels))) <= MaxSongs
          /\ fs = TreeOf(levels)
    /\ disk \in [RegularFiles(fs) -> FileStates]
    /\ dir_path \in Arguments
    /\ Fresh

\* SpecWalk starts from every tree of depth MaxDepth
InitWalk ==
    /\ \E levels \in LevelSeqs(MaxDepth) : fs = TreeOf(levels)
    /\ disk = [loc \in RegularFiles(fs) |-> NotAudio]
    /\ dir_path \in Arguments
    /\ Fresh

(***************************************************************************)
(* main, one action per call or loop iteration.                            *)
(***************************************************************************)
\* files = get_all_files(dir_path, ...)
Discover ==
    /\ pc = "main"
    /\ LET r == get_all_files(dir_path)
       IN  IF r.raised # ""
           THEN /\ pc' = "crashed"
                /\ exc' = [type |-> r.raised, raised_in |-> "get_all_files"]
                /\ UNCHANGED files
           ELSE /\ pc' = "load"
                /\ files' = r.files
                /\ UNCHANGED exc
    /\ idx' = 1
    /\ UNCHANGED <<fs, disk, dir_path, run, songs, fixed_songs, out, saved>>

\* one iteration of the loop of load_all_songs
LoadNext ==
    /\ pc = "load"
    /\ ~exhausted(idx, files)
    /\ LET r == load_song(files[idx])
       IN  IF r.raised # ""
           THEN /\ pc' = "crashed"
                /\ exc' = [type |-> r.raised, raised_in |-> "load_song"]
                /\ UNCHANGED <<songs, out, idx>>
           ELSE /\ songs' = Append(songs, r.value)
                /\ out' = out \o r.printed
                /\ idx' = idx + 1
                /\ UNCHANGED <<pc, exc>>
    /\ UNCHANGED <<fs, disk, dir_path, run, files, fixed_songs, saved>>

\* load_all_songs returns, main reports the scan and calls the fixer
FinishScan ==
    /\ pc = "load"
    /\ exhausted(idx, files)
    /\ out' = Append(out, [msg |-> "Finished scanning all files",
                           arg |-> Len(songs)])
    /\ pc' = "fix"
    /\ idx' = 1
    /\ fixed_songs' = 0
    /\ UNCHANGED <<fs, disk, dir_path, run, files, songs, saved, exc>>

\* one iteration of the loop of fix_album_artist_tag
FixNext ==
    /\ pc = "fix"
    /\ ~exhausted(idx, songs)
    /\ LET r == fix_song(songs[idx], fixed_songs)
       IN  /\ songs' = [songs EXCEPT ![idx] = r.song]
           /\ fixed_songs' = r.count
           /\ out' = out \o r.printed
           /\ IF r.written
              THEN /\ disk' = [disk EXCEPT ![Resolve(r.song.path)].tags =
                                               r.song.tags]
                   /\ saved' = Append(saved, Resolve(r.song.path))
              ELSE UNCHANGED <<disk, saved>>
           /\ IF r.raised # ""
              THEN /\ pc' = "crashed"
                   /\ exc' = [type |-> r.raised, raised_in |-> r.raised_in]
                   /\ UNCHANGED idx
              ELSE /\ idx' = idx + 1
                   /\ UNCHANGED <<pc, exc>>
    /\ UNCHANGED <<fs, dir_path, run, files>>

\* the summary of fix_album_artist_tag; main returns
FinishFix ==
    /\ pc = "fix"
    /\ exhausted(idx, songs)
    /\ out' = Append(out, [msg |-> "Finished fixing all songs",
                           arg |-> fixed_songs])
    /\ pc' = "done"
    /\ UNCHANGED <<fs, disk, dir_path, run, files, songs, idx, fixed_songs,
                   saved, exc>>

\* the program is started again on the same directory
Rerun ==
    /\ pc \in {"done", "crashed"}
    /\ run < MaxRuns
    /\ run' = run + 1
    /\ pc' = "main"
    /\ files' = <<>>
    /\ songs' = <<>>
    /\ idx' = 1
    /\ fixed_songs' = 0
    /\ out' = <<>>
    /\ saved' = <<>>
    /\ exc' = NoExc
    /\ UNCHANGED <<fs, disk, dir_path>>

Next == Discover \/ LoadNext \/ FinishScan \/ FixNext \/ FinishFix \/ Rerun

Spec == Init /\ [][Next]_vars

NextWalk == Discover

SpecWalk == InitWalk /\ [][NextWalk]_vars

(***************************************************************************)
(* Definitions the properties share.                                       *)
(***************************************************************************)
InFixer ==
    \/ pc \in {"fix", "done"}
    \/ pc = "crashed" /\ exc.raised_in \in {"fix_album_artist_tag", "save"}

Range(seq) == {seq[i] : i \in 1..Len(seq)}

\* the handle still holds what the file holds and the file was not written
Untouched(song) ==
    \/ song = None
    \/ /\ song.tags = disk[Resolve(song.path)].tags
       /\ Resolve(song.path) \notin Range(saved)

\* the iteration of the fixer that is about to run inspects a loaded handle
AtHandle == pc = "fix" /\ idx <= Len(songs) /\ songs[idx] # None

(***************************************************************************)
(* C1: an iteration of the fixer that inspects a handle without an album   *)
(* artist and with an artist, and that ends without an exception, leaves   *)
(* the handle and the file with the album artist equal to the artist the   *)
(* handle had before, and the count of fixed songs one higher.             *)
(***************************************************************************)
C1_FixCopiesArtist ==
    [][ ( /\ AtHandle
          /\ ~Contains(songs[idx], ALBUM_ARTIST)
          /\ GetItem(songs[idx], ARTIST) # NoValue
          /\ pc' # "crashed" )
        => ( /\ GetItem(songs'[idx], ALBUM_ARTIST) = GetItem(songs[idx], ARTIST)
             /\ GetItem(songs'[idx], ARTIST) = GetItem(songs[idx], ARTIST)
             /\ disk'[Resolve(songs[idx].path)].tags[ALBUM_ARTIST]
                    = GetItem(songs[idx], ARTIST)
             /\ fixed_songs' = fixed_songs + 1 ) ]_vars

\* a song that lacked the album artist has been fixed and saved
C1_Witness ==
    /\ pc = "fix"
    /\ fixed_songs >= 1
    /\ \E i \in 1..(idx - 1) :
          /\ songs[i] # None
          /\ Resolve(songs[i].path) \in Range(saved)
          /\ GetItem(songs[i], ARTIST) # NoValue
          /\ GetItem(songs[i], ALBUM_ARTIST) = GetItem(songs[i], ARTIST)
          /\ disk[Resolve(songs[i].path)].tags = songs[i].tags

(***************************************************************************)
(* C2: an iteration of the fixer that inspects a handle which has an album *)
(* artist changes no handle and no file, saves nothing, does not count,    *)
(* and does not fail.                                                      *)
(***************************************************************************)
C2_TaggedSongUntouched ==
    [][ ( AtHandle /\ Contains(songs[idx], ALBUM_ARTIST) )
        => ( /\ songs' = songs
             /\ disk' = disk
             /\ saved' = saved
             /\ fixed_songs' = fixed_songs
             /\ pc' = "fix" /\ idx' = idx + 1 ) ]_vars

\* the fixer has passed a song that had an album artist when it was loaded
C2_Witness ==
    /\ pc = "fix"
    /\ \E i \in 1..(idx - 1) :
          /\ songs[i] # None
          /\ GetItem(songs[i], ALBUM_ARTIST) = "Al"
          /\ Untouched(songs[i])

(***************************************************************************)
(* C3: a file that fails to load is skipped and the run goes on: the run   *)
(* never ends with an exception raised on the entry of a failed file.      *)
(***************************************************************************)
C3_FailedLoadIsSkipped ==
    \A i \in 1..Len(songs) :
        load_file(files[i]).raised # ""
            => ~( /\ pc = "crashed"
                  /\ exc.raised_in \in {"load_song", "fix_album_artist_tag"}
                  /\ idx = i )

(***************************************************************************)
(* C4: the second run of the program on the same directory fixes no file.  *)
(***************************************************************************)
C4_SecondRunFixesNothing == run >= 2 => fixed_songs = 0

(***************************************************************************)
(* C5: get_all_files returns the regular files under the root for which    *)
(* the filter holds, each once and nothing else.                           *)
(***************************************************************************)
C5_ReturnsExactlyMatchingFiles ==
    pc # "main"
        => /\ pc # "crashed"
           /\ Len(files) = Cardinality(Mp3Files(fs))
           /\ {Resolve(files[i]) : i \in 1..Len(files)} = Mp3Files(fs)

(***************************************************************************)
(* C6: the list get_all_files returns holds no directory, whatever the     *)
(* name of the directory, and every directory under the root was listed.   *)
(***************************************************************************)
C6_NoDirectoryIncludedAllDescended ==
    pc = "load"
        => /\ \A i \in 1..Len(files) : ~is_dir(files[i])
           /\ \A loc \in DOMAIN fs :
                 fs[loc] = "dir"
                     => loc \in Range(get_all_files(dir_path).visited)

(***************************************************************************)
(* C7: the list load_all_songs returns holds one handle per file that      *)
(* loaded and no entry for a file that did not.                            *)
(***************************************************************************)
C7_SongsHoldOnlyLoadedHandles ==
    InFixer
        => /\ \A i \in 1..Len(songs) : songs[i] # None
           /\ Len(songs) = Cardinality({i \in 1..Len(files) :
                                           load_file(files[i]).raised = ""})

(***************************************************************************)
(* C8: load_song raises nothing: whatever load_file raises, it reports the *)
(* path and returns None.                                                  *)
(***************************************************************************)
C8_LoadSongNeverRaises ==
    /\ ~(pc = "crashed" /\ exc.raised_in = "load_song")
    /\ \A i \in 1..Len(songs) :
          load_file(files[i]).raised # ""
              => /\ songs[i] = None
                 /\ \E k \in 1..Len(out) :
                       /\ out[k].msg \in {c.msg : c \in Range(except_clauses)}
                       /\ out[k].arg = files[i]

\* a load that raised an exception only the last clause catches was reported
\* and gave None
C8_Witness ==
    \E i \in 1..Len(songs) :
        /\ load_file(files[i]).raised \in {"OSError", "IsADirectoryError"}
        /\ songs[i] = None
        /\ \E k \in 1..Len(out) :
              out[k].msg = "Something went wrong" /\ out[k].arg = files[i]

(***************************************************************************)
(* C9, as the specification states it: at no point of a run is more than   *)
(* one song handle held.                                                   *)
(***************************************************************************)
C9_AtMostOneHandleOpen ==
    Cardinality({i \in 1..Len(songs) : songs[i] # None}) <= 1

(***************************************************************************)
(* C9, amended: every file is loaded, in the order of the list, before any *)
(* handle is inspected; no file is written while files are loaded; the     *)
(* fixer then takes the handles one at a time in the same order, and the   *)
(* handles it has not reached are as they were loaded.                     *)
(***************************************************************************)
C9_AllLoadedBeforeAnyFixed ==
    /\ pc = "load"
          => /\ Len(songs) = idx - 1
             /\ saved = <<>>
             /\ \A i \in 1..Len(songs) : Untouched(songs[i])
    /\ InFixer
          => /\ Len(songs) = Len(files)
             /\ \A i \in 1..Len(songs) :
                   songs[i] = None \/ songs[i].path = files[i]
             /\ \A i \in (idx + 1)..Len(songs) : Untouched(songs[i])
             /\ pc = "fix" /\ idx <= Len(songs) => Untouched(songs[idx])

\* the fixer starts with two handles held
C9_Witness ==
    /\ pc = "fix"
    /\ idx = 1
    /\ Cardinality({i \in 1..Len(songs) : songs[i] # None}) >= 2

(***************************************************************************)
(* C10: between the iterations of the fixer the count of fixed songs is    *)
(* the number of saves that returned; a save that raises is not counted,   *)
(* ends the fixer before its summary, and leaves every later handle as it  *)
(* was loaded.                                                             *)
(***************************************************************************)
C10_CountIsCompletedSaves ==
    /\ fixed_songs = Len(saved)
    /\ (pc = "crashed" /\ exc.raised_in = "save")
          => /\ Resolve(songs[idx].path) \notin Range(saved)
             /\ \A k \in 1..Len(out) : out[k].msg # "Finished fixing all songs"
             /\ \A j \in (idx + 1)..Len(songs) : Untouched(songs[j])

\* a save raised with a handle left behind it
C10_Witness ==
    /\ pc = "crashed"
    /\ exc.raised_in = "save"
    /\ idx < Len(songs)
    /\ songs[idx + 1] # None
    /\ ~Contains(songs[idx + 1], ALBUM_ARTIST)
====
